---------------------------- MODULE Spec2Model ----------------------------
(* A state-machine model of mimir's network-streaming subsystem:            *)
(*   - the Streaming Publisher (ServerHandler / PersistentServerHandler),   *)
(*   - the Snapshot Manager thread (state_manager),                         *)
(*   - the streaming clients (stream.get_snapshot / connect / callback),    *)
(*   - the Aggregation Broker (_server_logger) and RemoteLogger producers.  *)
(*   - the Dispatcher (_Logger) and the handlers it fans entries out to.    *)
EXTENDS Integers, Sequences, FiniteSets, TLC

(***************************************************************************)
(* Bounds of the model                                                     *)
(***************************************************************************)
\* number of log() calls made on the streaming handler
MaxLog == 3
\* largest finite history capacity tried for the Snapshot Manager
MaxCap == 2
\* number of log() calls made on the RemoteLoggers
MaxSend == 2
\* number of close() calls made on RemoteLoggers that are already closed
MaxReclose == 1
\* number of log() calls made on the Dispatcher
MaxCalls == 2
\* number of close() calls made on the Dispatcher
MaxCloses == 2

(***************************************************************************)
(* Program constants                                                       *)
(***************************************************************************)
\* sys.maxsize, the default ("effectively unlimited") maxlen; the largest
\* integer of the model checker stands for it
SysMaxsize == 2147483647
\* a.hwm = b.hwm = 1 on both ends of the internal PAIR pipe
Hwm == 1
\* an inproc pipe holds the sender's plus the receiver's high-water mark
PipeCapacity == Hwm + Hwm

\* identities of the streaming clients
StreamClients == {"c1", "c2"}

\* the request body the Snapshot Manager expects
ICANHAZ == <<"ICANHAZ?">>

\* identities of the RemoteLogger connections
Producers == {"A", "B", "C"}
\* the name argument of each RemoteLogger ("" stands for name=None)
ProducerNames == [p \in Producers |-> IF p = "B" THEN "w" ELSE ""]

\* the handshake tokens of the aggregation protocol
LOG_READY == <<"READY">>
LOG_ACK == <<"ACK">>
LOG_DONE == <<"DONE">>

(***************************************************************************)
(* Conversions                                                             *)
(***************************************************************************)
Digits == <<"0", "1", "2", "3", "4", "5", "6", "7", "8", "9">>

\* str(n): the decimal string of an integer, as a sequence of characters
RECURSIVE str(_)
str(n) ==
    IF n < 0 THEN <<"-">> \o str(0 - n)
    ELSE IF n < 10 THEN <<Digits[n + 1]>>
    ELSE str(n \div 10) \o <<Digits[(n % 10) + 1]>>

DigitValue(d) == CHOOSE i \in 0..9 : Digits[i + 1] = d

RECURSIVE ParseNat(_)
ParseNat(s) ==
    IF Len(s) = 1 THEN DigitValue(s[1])
    ELSE 10 * ParseNat(SubSeq(s, 1, Len(s) - 1)) + DigitValue(s[Len(s)])

\* int(s): parses a decimal string with an optional leading minus sign
int(s) == IF s[1] = "-" THEN 0 - ParseNat(Tail(s)) ELSE ParseNat(s)

(***************************************************************************)
(* JSON.  A text is a sequence of lexemes; a value is an integer or a      *)
(* string, told apart as Python tells 2 from '2'; a dict maps keys to      *)
(* values.                                                                 *)
(***************************************************************************)
IntV(n) == [kind |-> "int", n |-> n, s |-> ""]
StrV(s) == [kind |-> "str", n |-> 0, s |-> s]

Quote == "\""

\* the keys an entry may carry, in the order json.dumps writes them
KeyOrder == <<"i", "remote_log", "x">>

ValueText(v) ==
    IF v.kind = "str"
    THEN (IF v.s = "" THEN <<Quote, Quote>> ELSE <<Quote, v.s, Quote>>)
    ELSE str(v.n)

RECURSIVE MembersText(_, _, _)
MembersText(d, ks, first) ==
    IF ks = <<>> THEN <<>>
    ELSE IF Head(ks) \in DOMAIN d
         THEN (IF first THEN <<>> ELSE <<",">>)
              \o <<Quote, Head(ks), Quote, ":">> \o ValueText(d[Head(ks)])
              \o MembersText(d, Tail(ks), FALSE)
         ELSE MembersText(d, Tail(ks), first)

\* json.dumps of a dict
dumps(d) == <<"{">> \o MembersText(d, KeyOrder, TRUE) \o <<"}">>

\* the value starting at lexeme p of text t, and the position after it
ParseValue(t, p) ==
    IF t[p] = Quote
    THEN IF t[p + 1] = Quote
         THEN [val |-> StrV(""), next |-> p + 2]
         ELSE [val |-> StrV(t[p + 1]), next |-> p + 3]
    ELSE LET q == CHOOSE j \in p..(Len(t) + 1) :
                      /\ j > Len(t) \/ t[j] \in {",", "}"}
                      /\ \A m \in p..(j - 1) : t[m] \notin {",", "}"}
         IN [val |-> IntV(int(SubSeq(t, p, q - 1))), next |-> q]

\* the (key, value) members of an object, p being the position of a key
RECURSIVE ParseMembers(_, _)
ParseMembers(t, p) ==
    IF t[p] = "}" THEN <<>>
    ELSE LET v == ParseValue(t, p + 4)
             rest == IF t[v.next] = "," THEN v.next + 1 ELSE v.next
         IN << <<t[p + 1], v.val>> >> \o ParseMembers(t, rest)

\* json.loads: an object becomes a dict (a repeated key keeps its last
\* value), any other text the value it denotes
loads(t) ==
    IF t[1] = "{"
    THEN LET ms == ParseMembers(t, 2)
         IN [k \in {ms[j][1] : j \in DOMAIN ms} |->
                ms[CHOOSE j \in DOMAIN ms :
                    ms[j][1] = k /\ \A m \in DOMAIN ms : ms[m][1] = k => m <= j][2]]
    ELSE ParseValue(t, 1).val

\* the serialized entry the Dispatcher hands to the streaming handler on
\* the k-th log() call: the entries {"i": 1}, {"i": 2}, ...
Payloads(k) == {dumps([f \in {"i"} |-> IntV(k)])}

\* the payload of the terminal snapshot message, b'""'
EmptyPayload == <<Quote, Quote>>

(***************************************************************************)
(* State                                                                   *)
(***************************************************************************)
VARIABLES
    \* --- the streaming handler
    persistent,   \* TRUE: PersistentServerHandler, FALSE: ServerHandler
    maxlen,       \* history capacity handed to state_manager
    sequence,     \* ServerHandler.sequence
    pubpc,        \* position of the thread calling log()
    pending,      \* the entry of the log() call in progress
    nlog,         \* number of log() calls started
    broadcast,    \* every message sent on the PUB socket, in order
    subscribers,  \* SUB sockets whose connection the PUB socket has accepted
    updates,      \* the internal PAIR pipe, publisher -> manager
    \* --- state_manager
    store,        \* state_manager's deque
    mpc,          \* state_manager: "polling" or "dead"
    requests,     \* inbound queue of the ROUTER snapshot socket
    \* --- the streaming clients
    snapIn,       \* per client: inbound queue of its DEALER socket
    subIn,        \* per client: inbound queue of its SUB socket
    cmode,        \* per client: whether it asks for the snapshot (the
                  \* get_snapshot argument of callback())
    cpc,          \* per client: position of its thread
    csub,         \* per client: state of its SUB socket
    cseq,         \* per client: `sequence` of get_snapshot / init_sequence
    centries,     \* per client: `entries` of get_snapshot
    called,       \* per client: the callback invocations, as (sequence, entry)
    joinseq,      \* per client: the publisher's counter when its SUB socket
                  \* was connected
    \* --- _server_logger
    bpc,          \* "wait_first", "loop", "returned" or "failed"
    client_id,    \* the ordinal counter
    clients,      \* the dict identity -> tag of the active sessions
    inbox,        \* per producer: its messages queued at the ROUTER socket
    outbox,       \* per producer: the replies queued at its REQ socket
    logged,       \* the entries handed to logger.log(), in order
    handled,      \* the messages recv_multipart returned, in order
    sent,         \* the replies the broker sent, in order
    sessions,     \* the sessions recorded, in order
    \* --- RemoteLogger
    ppc,          \* per producer: position of the thread using it
    pname,        \* per producer: the name argument
    pclosed,      \* per producer: self.closed
    nsent,        \* number of RemoteLogger.log() calls made
    plog,         \* per producer: the x of the entries it called log() with
    pret,         \* per producer: number of log() calls that have returned
    reclosed,     \* the producers close() was called on while closed
    \* --- Dispatcher (_Logger) and its handlers
    handlers,     \* self.handlers: the handler objects, in registration order
    lmaxlen,      \* maxlen of self._entries
    self_entries, \* self._entries
    lpc,          \* position of the thread calling log(): "idle" or "loop"
    li,           \* index of the handler the loop of log() is at
    lentry,       \* the entry argument of the log() call in progress
    filtered_entries,    \* the local dict of log(), keyed by filter set
    serialized_entries,  \* the local dict of log(), keyed by filter set
    files,        \* per handler: its fp (closed flag, buffer, output)
    received,     \* history: the handler.log calls made, in order
    ncall,        \* number of log() calls made on the Dispatcher
    args,         \* history: the entry argument of each log() call
    nclose,       \* number of close() calls made on the Dispatcher
    runs,         \* history: the handler.filter and json.dumps calls made
    results,      \* history: how each log() call ended
    closes        \* history: the handler.close calls made, in order

handlerVars == <<persistent, maxlen, sequence, pubpc, pending, nlog>>
pubsubVars == <<broadcast, subscribers, subIn, joinseq>>
managerVars == <<updates, store, mpc, requests, snapIn>>
clientVars == <<cmode, cpc, csub, cseq, centries, called>>
streamVars == <<handlerVars, pubsubVars, managerVars, clientVars>>

brokerVars == <<bpc, client_id, clients, logged, handled, sent, sessions>>
wireVars == <<inbox, outbox>>
callVars == <<plog, pret, reclosed>>
producerVars == <<ppc, pname, pclosed, nsent, callVars>>
remoteVars == <<brokerVars, wireVars, producerVars>>

dispatchVars == <<handlers, lmaxlen, self_entries, lpc, li, lentry,
                  filtered_entries, serialized_entries>>
sinkVars == <<files, received>>
ghostVars == <<ncall, args, nclose, runs, results, closes>>
loggerVars == <<dispatchVars, sinkVars, ghostVars>>

vars == <<streamVars, remoteVars, loggerVars>>

(***************************************************************************)
(* Streaming Publisher                                                     *)
(***************************************************************************)
\* a message whose first part is not the counter
ServerHandler__log_unnumbered(seq, entry) == <<str(0), entry>>

\* ServerHandler._log: a two-part message, str(sequence) then the entry
ServerHandler__log(seq, entry) == <<str(seq), entry>>

\* a PUB socket that drops a message for a subscriber that has one queued
Publish_lossy(msg) ==
    /\ broadcast' = Append(broadcast, msg)
    /\ subIn' = [c \in StreamClients |->
                    IF c \in subscribers /\ subIn[c] = <<>>
                    THEN Append(subIn[c], msg)
                    ELSE subIn[c]]

\* a PUB socket hands a message to every connected subscriber
Publish(msg) ==
    /\ broadcast' = Append(broadcast, msg)
    /\ subIn' = [c \in StreamClients |->
                    IF c \in subscribers THEN Append(subIn[c], msg)
                    ELSE subIn[c]]

\* a counter that skips a number
NextSequence_skip(seq) == seq + 2

\* the value of self.sequence after `self.sequence += 1`
NextSequence(seq) == seq + 1

\* ServerHandler.log
ServerHandler_log(entry) ==
    /\ ~persistent
    /\ pubpc = "idle"
    /\ nlog < MaxLog
    /\ nlog' = nlog + 1
    /\ sequence' = NextSequence(sequence)
    /\ Publish(ServerHandler__log(sequence', entry))
    /\ UNCHANGED <<persistent, maxlen, pubpc, pending, subscribers, joinseq,
                   managerVars, clientVars, remoteVars, loggerVars>>

\* PersistentServerHandler.log up to the send on the PUB socket
PersistentServerHandler_log(entry) ==
    /\ persistent
    /\ pubpc = "idle"
    /\ nlog < MaxLog
    /\ nlog' = nlog + 1
    /\ sequence' = NextSequence(sequence)
    /\ Publish(ServerHandler__log(sequence', entry))
    /\ pubpc' = "updates"
    /\ pending' = entry
    /\ UNCHANGED <<persistent, maxlen, subscribers, joinseq, managerVars,
                   clientVars, remoteVars, loggerVars>>

\* PersistentServerHandler.log: the send on the internal pipe, which blocks
\* while the pipe is at its high-water mark
PersistentServerHandler_log_updates ==
    /\ pubpc = "updates"
    /\ Len(updates) < PipeCapacity
    /\ updates' = Append(updates, ServerHandler__log(sequence, pending))
    /\ pubpc' = "idle"
    /\ pending' = <<>>
    /\ UNCHANGED <<persistent, maxlen, sequence, nlog, pubsubVars, store, mpc,
                   requests, snapIn, clientVars, remoteVars, loggerVars>>

(***************************************************************************)
(* Snapshot Manager                                                        *)
(***************************************************************************)
\* a manager that numbers the pair it stores by itself
UpdatePair_own(msg) == <<int(msg[1]) + 1, msg[2]>>

\* `sequence, entry = int(pipe.recv()), pipe.recv_string()`
UpdatePair(msg) == <<int(msg[1]), msg[2]>>

\* a full deque that refuses the new item instead of evicting the oldest
deque_append_keep_old(d, x, cap) ==
    IF Len(d) >= cap THEN d ELSE Append(d, x)

\* deque.append on a deque with the given maxlen
deque_append(d, x, cap) ==
    IF cap = 0 THEN d
    ELSE IF Len(d) >= cap THEN Append(Tail(d), x)
    ELSE Append(d, x)

\* an update that is appended to a list that is never trimmed
StoreAfterUpdate_unbounded ==
    IF updates # <<>>
    THEN Append(store, UpdatePair(updates[1]))
    ELSE store

\* the store after the `if pipe in items` branch
StoreAfterUpdate ==
    IF updates # <<>>
    THEN deque_append(store, UpdatePair(updates[1]), maxlen)
    ELSE store

\* the messages of one snapshot reply: every pair of the store, then the
\* terminal message
SnapshotReply(st) ==
    [j \in 1..Len(st) |-> <<str(st[j][1]), st[j][2]>>]
        \o << <<str(0 - 1), EmptyPayload>> >>

\* a reply routed to the first client instead of the requester
ReplyTo_first(request) == "c1"

\* the client a reply is routed to
ReplyTo(request) == request.client

\* a manager that serves whatever the request says
ValidRequest_any(request) == TRUE

\* `assert request == b'ICANHAZ?'`
ValidRequest(request) == request = ICANHAZ

\* a manager that takes the pairs out of the store as it sends them
StoreAfterServe_drained(st) == <<>>

\* the store after `for k, v in store`, which only reads it
StoreAfterServe(st) == st

\* one iteration of state_manager's loop: poll, then at most one update from
\* the pipe, then at most one snapshot request
state_manager ==
    /\ persistent
    /\ mpc = "polling"
    /\ updates # <<>> \/ requests # <<>>
    /\ store' = IF requests # <<>> /\ ValidRequest(requests[1].request)
                THEN StoreAfterServe(StoreAfterUpdate)
                ELSE StoreAfterUpdate
    /\ updates' = IF updates # <<>> THEN Tail(updates) ELSE updates
    /\ IF requests # <<>>
       THEN /\ requests' = Tail(requests)
            /\ IF ValidRequest(requests[1].request)
               THEN /\ snapIn' = [snapIn EXCEPT ![ReplyTo(requests[1])] =
                                     @ \o SnapshotReply(StoreAfterUpdate)]
                    /\ mpc' = mpc
               ELSE /\ snapIn' = snapIn
                    /\ mpc' = "dead"
       ELSE UNCHANGED <<requests, snapIn, mpc>>
    /\ UNCHANGED <<handlerVars, pubsubVars, clientVars, remoteVars, loggerVars>>

(***************************************************************************)
(* Streaming clients: stream.callback, and a client's own code that calls  *)
(* stream.get_snapshot, stream.connect and stream.recv in callback's order *)
(***************************************************************************)
\* the number of log() calls that have returned
LogsReturned == IF pubpc = "idle" THEN nlog ELSE nlog - 1

\* whether `get_snapshot(host=host, ...)` inside callback() can be called:
\* there the name is callback's own parameter, whose value is the flag
\* the caller passed, and a bool is not callable
Callable(get_snapshot) == get_snapshot \notin BOOLEAN

\* stream.get_snapshot up to the send of the request
get_snapshot_send(c) ==
    /\ requests' = Append(requests,
                          [client |-> c, request |-> ICANHAZ,
                           returned |-> LogsReturned])
    /\ cpc' = [cpc EXCEPT ![c] = "get_snapshot"]
    /\ csub' = csub

\* callback(): with get_snapshot, the call of the name get_snapshot, which
\* raises TypeError; without, init_sequence, entries = 0, [] and connect()
callback_start(c) ==
    /\ cpc[c] = "start"
    /\ cseq' = [cseq EXCEPT ![c] = 0]
    /\ centries' = [centries EXCEPT ![c] = <<>>]
    /\ IF cmode[c]
       THEN IF Callable(cmode[c])
            THEN get_snapshot_send(c)
            ELSE /\ requests' = requests
                 /\ cpc' = [cpc EXCEPT ![c] = "failed"]
                 /\ csub' = csub
       ELSE /\ requests' = requests
            /\ cpc' = [cpc EXCEPT ![c] = "recv"]
            /\ csub' = [csub EXCEPT ![c] = "connecting"]
    /\ UNCHANGED <<handlerVars, pubsubVars, updates, store, mpc, snapIn,
                   cmode, called, remoteVars, loggerVars>>

\* a client's own code calls stream.get_snapshot()
get_snapshot(c) ==
    /\ cpc[c] = "main"
    /\ cseq' = [cseq EXCEPT ![c] = 0]
    /\ centries' = [centries EXCEPT ![c] = <<>>]
    /\ get_snapshot_send(c)
    /\ UNCHANGED <<handlerVars, pubsubVars, updates, store, mpc, snapIn,
                   cmode, called, remoteVars, loggerVars>>

\* a loop that stores the sequence number before it looks at its sign
SequenceAfter_always(seq, sequence_) == sequence_

\* `sequence` after one pass of get_snapshot's loop: the break comes before
\* `sequence = sequence_`
SequenceAfter(seq, sequence_) ==
    IF sequence_ < 0 THEN seq ELSE sequence_

\* one pass of get_snapshot's loop; on the terminal message get_snapshot
\* returns and the caller connects and replays the snapshot's entries
get_snapshot_recv(c) ==
    /\ cpc[c] = "get_snapshot"
    /\ snapIn[c] # <<>>
    /\ snapIn' = [snapIn EXCEPT ![c] = Tail(@)]
    /\ LET sequence_ == int(snapIn[c][1][1])
           entry == loads(snapIn[c][1][2])
       IN IF sequence_ < 0
          THEN /\ cpc' = [cpc EXCEPT ![c] = "recv"]
               /\ csub' = [csub EXCEPT ![c] = "connecting"]
               /\ called' = [called EXCEPT ![c] = centries[c]]
               /\ cseq' = [cseq EXCEPT ![c] = SequenceAfter(@, sequence_)]
               /\ UNCHANGED centries
          ELSE /\ centries' = [centries EXCEPT ![c] =
                                  Append(@, <<sequence_, entry>>)]
               /\ cseq' = [cseq EXCEPT ![c] = SequenceAfter(@, sequence_)]
               /\ UNCHANGED <<cpc, csub, called>>
    /\ UNCHANGED <<handlerVars, pubsubVars, updates, store, mpc, requests,
                   cmode, remoteVars, loggerVars>>

\* the body of a request that is not a snapshot request
BadBody == <<"HAZ?">>

\* a peer's own code sends a request with another body to the snapshot
\* port and waits for a reply
bad_request(c) ==
    /\ cpc[c] = "rogue"
    /\ requests' = Append(requests,
                          [client |-> c, request |-> BadBody,
                           returned |-> LogsReturned])
    /\ cpc' = [cpc EXCEPT ![c] = "rogue_wait"]
    /\ UNCHANGED <<handlerVars, pubsubVars, updates, store, mpc, snapIn,
                   cmode, csub, cseq, centries, called, remoteVars,
                   loggerVars>>

\* the PUB socket accepts the connection of a client's SUB socket
sub_connected(c) ==
    /\ csub[c] = "connecting"
    /\ csub' = [csub EXCEPT ![c] = "connected"]
    /\ subscribers' = subscribers \cup {c}
    /\ joinseq' = [joinseq EXCEPT ![c] = sequence]
    /\ UNCHANGED <<handlerVars, broadcast, subIn, managerVars, cmode, cpc,
                   cseq, centries, called, remoteVars, loggerVars>>

\* whether callback() passes a live entry on
Fresh(seq, init_sequence) == seq > init_sequence

\* one pass of callback()'s receive loop
callback_recv(c) ==
    /\ cpc[c] = "recv"
    /\ subIn[c] # <<>>
    /\ subIn' = [subIn EXCEPT ![c] = Tail(@)]
    /\ LET seq == int(subIn[c][1][1])
           entry == loads(subIn[c][1][2])
       IN called' = [called EXCEPT ![c] =
                        IF Fresh(seq, cseq[c]) THEN Append(@, <<seq, entry>>)
                        ELSE @]
    /\ UNCHANGED <<handlerVars, broadcast, subscribers, joinseq, managerVars,
                   cmode, cpc, csub, cseq, centries, remoteVars, loggerVars>>

\* plot.connect up to the send of the request: the SUB socket subscribes
\* and connects first; without persistent, connect returns 0, [], []
plot_connect(c) ==
    /\ cpc[c] = "plot"
    /\ csub' = [csub EXCEPT ![c] = "connecting"]
    /\ cseq' = [cseq EXCEPT ![c] = 0]
    /\ centries' = [centries EXCEPT ![c] = <<>>]
    /\ IF cmode[c]
       THEN /\ requests' = Append(requests,
                                  [client |-> c, request |-> ICANHAZ,
                                   returned |-> LogsReturned])
            /\ cpc' = [cpc EXCEPT ![c] = "plot_snapshot"]
       ELSE /\ requests' = requests
            /\ cpc' = [cpc EXCEPT ![c] = "plot_update"]
    /\ UNCHANGED <<handlerVars, pubsubVars, updates, store, mpc, snapIn,
                   cmode, called, remoteVars, loggerVars>>

\* one pass of plot.connect's loop: `sequence = int(snapshot.recv())` comes
\* before `if sequence < 0: break`; on the terminal message connect
\* returns and the snapshot's points are plotted
plot_connect_recv(c) ==
    /\ cpc[c] = "plot_snapshot"
    /\ snapIn[c] # <<>>
    /\ snapIn' = [snapIn EXCEPT ![c] = Tail(@)]
    /\ LET sequence_ == int(snapIn[c][1][1])
           entry == loads(snapIn[c][1][2])
       IN /\ cseq' = [cseq EXCEPT ![c] = sequence_]
          /\ IF sequence_ < 0
             THEN /\ cpc' = [cpc EXCEPT ![c] = "plot_update"]
                  /\ called' = [called EXCEPT ![c] = centries[c]]
                  /\ UNCHANGED centries
             ELSE /\ centries' = [centries EXCEPT ![c] =
                                     Append(@, <<sequence_, entry>>)]
                  /\ UNCHANGED <<cpc, called>>
    /\ UNCHANGED <<handlerVars, pubsubVars, updates, store, mpc, requests,
                   cmode, csub, remoteVars, loggerVars>>

\* plot.update: one live entry, plotted when `sequence > init_sequence`
plot_update(c) ==
    /\ cpc[c] = "plot_update"
    /\ subIn[c] # <<>>
    /\ subIn' = [subIn EXCEPT ![c] = Tail(@)]
    /\ LET seq == int(subIn[c][1][1])
           entry == loads(subIn[c][1][2])
       IN called' = [called EXCEPT ![c] =
                        IF seq > cseq[c] THEN Append(@, <<seq, entry>>)
                        ELSE @]
    /\ UNCHANGED <<handlerVars, broadcast, subscribers, joinseq, managerVars,
                   cmode, cpc, csub, cseq, centries, remoteVars, loggerVars>>

\* tests/test_persistent_client.py: the SUB socket subscribes and connects,
\* `store = {}` and `sequence = 0`
test_client_connect(c) ==
    /\ cpc[c] = "test"
    /\ csub' = [csub EXCEPT ![c] = "connecting"]
    /\ cseq' = [cseq EXCEPT ![c] = 0]
    /\ centries' = [centries EXCEPT ![c] = <<>>]
    /\ cpc' = [cpc EXCEPT ![c] = "test_request"]
    /\ UNCHANGED <<handlerVars, pubsubVars, managerVars, cmode, called,
                   remoteVars, loggerVars>>

\* the test client's `snapshot.send(b'ICANHAZ?')`
test_client_request(c) ==
    /\ cpc[c] = "test_request"
    /\ requests' = Append(requests,
                          [client |-> c, request |-> ICANHAZ,
                           returned |-> LogsReturned])
    /\ cpc' = [cpc EXCEPT ![c] = "test_snapshot"]
    /\ UNCHANGED <<handlerVars, pubsubVars, updates, store, mpc, snapIn,
                   cmode, csub, cseq, centries, called, remoteVars,
                   loggerVars>>

\* one pass of the test client's first loop: `store[sequence] = entry`
\* for every message before the terminal one
test_client_snapshot(c) ==
    /\ cpc[c] = "test_snapshot"
    /\ snapIn[c] # <<>>
    /\ snapIn' = [snapIn EXCEPT ![c] = Tail(@)]
    /\ LET sequence_ == int(snapIn[c][1][1])
           entry == loads(snapIn[c][1][2])
       IN /\ cseq' = [cseq EXCEPT ![c] = sequence_]
          /\ IF sequence_ < 0
             THEN /\ cpc' = [cpc EXCEPT ![c] = "test_recv"]
                  /\ UNCHANGED <<centries, called>>
             ELSE /\ centries' = [centries EXCEPT ![c] =
                                     Append(@, <<sequence_, entry>>)]
                  /\ called' = [called EXCEPT ![c] =
                                   Append(@, <<sequence_, entry>>)]
                  /\ UNCHANGED cpc
    /\ UNCHANGED <<handlerVars, pubsubVars, updates, store, mpc, requests,
                   cmode, csub, remoteVars, loggerVars>>

\* one pass of the test client's second loop: a live entry is kept
\* `if sequence not in store`
test_client_recv(c) ==
    /\ cpc[c] = "test_recv"
    /\ subIn[c] # <<>>
    /\ subIn' = [subIn EXCEPT ![c] = Tail(@)]
    /\ LET seq == int(subIn[c][1][1])
           entry == loads(subIn[c][1][2])
       IN /\ cseq' = [cseq EXCEPT ![c] = seq]
          /\ called' = [called EXCEPT ![c] =
                           IF \E j \in 1..Len(@) : @[j][1] = seq THEN @
                           ELSE Append(@, <<seq, entry>>)]
    /\ UNCHANGED <<handlerVars, broadcast, subscribers, joinseq, managerVars,
                   cmode, cpc, csub, centries, remoteVars, loggerVars>>

(***************************************************************************)
(* Aggregation Broker: _server_logger                                      *)
(***************************************************************************)
\* bytes.decode() of a frame that holds one string, or none
decode(frame) == IF frame = <<>> THEN "" ELSE frame[1]

\* msg[3].decode() or client_id
SessionTag(msg, id) ==
    IF decode(msg[4]) # "" THEN StrV(decode(msg[4])) ELSE IntV(id)

\* d[k] = v on a dict
SetItem(d, k, v) == [x \in DOMAIN d \cup {k} |-> IF x = k THEN v ELSE d[x]]

\* del d[k]
DelItem(d, k) == [x \in DOMAIN d \ {k} |-> d[x]]

\* a tag that does not replace a remote_log field of the payload
Tagged_setdefault(entry, tag) ==
    IF "remote_log" \in DOMAIN entry THEN entry
    ELSE [x \in DOMAIN entry \cup {"remote_log"} |->
             IF x = "remote_log" THEN tag ELSE entry[x]]

\* entry['remote_log'] = clients[client]
Tagged(entry, tag) == SetItem(entry, "remote_log", tag)

\* a broker that does not acknowledge entries
Reply_no_ack(client, token) ==
    /\ outbox' = [outbox EXCEPT ![client] =
                      IF token = LOG_ACK THEN @ ELSE Append(@, token)]
    /\ sent' = IF token = LOG_ACK THEN sent
               ELSE Append(sent, [client |-> client, token |-> token])

\* remote_logs.send_multipart([client, b'', token])
Reply(client, token) ==
    /\ outbox' = [outbox EXCEPT ![client] = Append(@, token)]
    /\ sent' = Append(sent, [client |-> client, token |-> token])

\* remote_logs.recv_multipart() returning the next message of producer p
Recv(p) ==
    /\ inbox[p] # <<>>
    /\ inbox' = [inbox EXCEPT ![p] = Tail(@)]
    /\ handled' = Append(handled, [client |-> p, request |-> inbox[p][1][2]])

\* a Dispatcher that puts the newest entry first
logger_log_prepend(entries, entry) == <<entry>> \o entries

\* logger.log(entry): the Dispatcher receives the entry
logger_log(entries, entry) == Append(entries, entry)

\* a counter that is not advanced
NextClientId_same(id) == id

\* the client id a JOIN in the loop is given: `client_id += 1`
NextClientId(id) == id + 1

\* a loop test that never lets the broker return
while_clients_forever(cl) == TRUE

\* `while clients`: a dict is true when it is not empty
while_clients(cl) == DOMAIN cl # {}

\* a broker that goes on with its loop after a failed assertion
assert_fails_caught(pc) == pc

\* a failed `assert` in the loop: the AssertionError is caught nowhere and
\* ends _server_logger
assert_fails(pc) == "failed"

\* a broker that takes a JOIN from an identity whatever its sessions
JoinAllowed_any(cl, client) == TRUE

\* `assert client not in clients` on a JOIN inside the loop
JoinAllowed(cl, client) == client \notin DOMAIN cl

\* the part of _server_logger before its loop: the first message
server_logger_first(p) ==
    /\ bpc = "wait_first"
    /\ Recv(p)
    /\ LET msg == <<p>> \o inbox[p][1]
           client == msg[1]
           request == msg[3]
       IN IF request = LOG_READY /\ Len(msg) >= 4
          THEN /\ clients' = SetItem(clients, client, SessionTag(msg, client_id))
               /\ sessions' = Append(sessions,
                                  [client |-> client, ordinal |-> client_id,
                                   tag |-> SessionTag(msg, client_id)])
               /\ Reply(client, LOG_READY)
               /\ bpc' = "loop"
          ELSE /\ bpc' = "failed"
               /\ UNCHANGED <<clients, sessions, outbox, sent>>
    /\ UNCHANGED <<client_id, logged, producerVars, streamVars, loggerVars>>

\* one pass of _server_logger's loop, and its `while clients` test
server_logger_loop(p) ==
    /\ bpc = "loop"
    /\ Recv(p)
    /\ LET msg == <<p>> \o inbox[p][1]
           client == msg[1]
           request == msg[3]
       IN IF request = LOG_READY
          THEN IF JoinAllowed(clients, client) /\ Len(msg) >= 4
               THEN /\ client_id' = NextClientId(client_id)
                    /\ clients' = SetItem(clients, client,
                                          SessionTag(msg, client_id'))
                    /\ sessions' = Append(sessions,
                                       [client |-> client,
                                        ordinal |-> client_id',
                                        tag |-> SessionTag(msg, client_id')])
                    /\ Reply(client, LOG_READY)
                    /\ UNCHANGED <<bpc, logged>>
               ELSE /\ bpc' = assert_fails(bpc)
                    /\ UNCHANGED <<client_id, clients, sessions, logged,
                                   outbox, sent>>
          ELSE IF request = LOG_DONE
          THEN IF client \in DOMAIN clients
               THEN /\ clients' = DelItem(clients, client)
                    /\ Reply(client, LOG_DONE)
                    /\ bpc' = IF while_clients(clients') THEN "loop"
                              ELSE "returned"
                    /\ UNCHANGED <<client_id, sessions, logged>>
               ELSE /\ bpc' = assert_fails(bpc)
                    /\ UNCHANGED <<client_id, clients, sessions, logged,
                                   outbox, sent>>
          ELSE IF client \in DOMAIN clients
               THEN /\ logged' = logger_log(logged,
                                    Tagged(loads(request), clients[client]))
                    /\ Reply(client, LOG_ACK)
                    /\ UNCHANGED <<bpc, client_id, clients, sessions>>
               ELSE /\ bpc' = assert_fails(bpc)
                    /\ UNCHANGED <<client_id, clients, sessions, logged,
                                   outbox, sent>>
    /\ UNCHANGED <<producerVars, streamVars, loggerVars>>

(***************************************************************************)
(* RemoteLogger                                                            *)
(***************************************************************************)
\* the entry of the k-th RemoteLogger.log() call: {"x": k}, every other one
\* with a remote_log field of its own
ProducerEntries(k) ==
    IF k % 2 = 1
    THEN { ("x" :> IntV(k)) @@ ("remote_log" :> StrV("mine")) }
    ELSE { ("x" :> IntV(k)) }

\* a send on the REQ socket: the empty delimiter frame, then the frames
Request(p, frames) ==
    inbox' = [inbox EXCEPT ![p] = Append(@, <<<<>>>> \o frames)]

\* a construction that sends the JOIN and does not wait for the reply
RemoteLogger_init_nowait(p) ==
    /\ ppc[p] = "new"
    /\ pclosed' = [pclosed EXCEPT ![p] = FALSE]
    /\ Request(p, <<LOG_READY,
                    IF pname[p] # "" THEN <<pname[p]>> ELSE <<>> >>)
    /\ ppc' = [ppc EXCEPT ![p] = "idle"]
    /\ UNCHANGED <<brokerVars, outbox, pname, nsent, callVars, streamVars, loggerVars>>

\* RemoteLogger.__init__ up to the send of the JOIN
RemoteLogger_init(p) ==
    /\ ppc[p] = "new"
    /\ pclosed' = [pclosed EXCEPT ![p] = TRUE]
    /\ Request(p, <<LOG_READY,
                    IF pname[p] # "" THEN <<pname[p]>> ELSE <<>> >>)
    /\ ppc' = [ppc EXCEPT ![p] = "init_recv"]
    /\ UNCHANGED <<brokerVars, outbox, pname, nsent, callVars, streamVars, loggerVars>>

\* RemoteLogger.__init__: `assert server_log.recv() == LOG_READY`
RemoteLogger_init_recv(p) ==
    /\ ppc[p] = "init_recv"
    /\ outbox[p] # <<>>
    /\ outbox' = [outbox EXCEPT ![p] = Tail(@)]
    /\ IF outbox[p][1] = LOG_READY
       THEN /\ pclosed' = [pclosed EXCEPT ![p] = FALSE]
            /\ ppc' = [ppc EXCEPT ![p] = "idle"]
       ELSE /\ pclosed' = pclosed
            /\ ppc' = [ppc EXCEPT ![p] = "failed"]
    /\ UNCHANGED <<brokerVars, inbox, pname, nsent, callVars, streamVars, loggerVars>>

\* RemoteLogger.log up to the send of the ENTRY
RemoteLogger_log(p, entry) ==
    /\ ppc[p] = "idle"
    /\ nsent < MaxSend
    /\ nsent' = nsent + 1
    /\ plog' = [plog EXCEPT ![p] = Append(@, entry["x"].n)]
    /\ Request(p, <<dumps(entry)>>)
    /\ ppc' = [ppc EXCEPT ![p] = "log_recv"]
    /\ UNCHANGED <<brokerVars, outbox, pname, pclosed, pret, reclosed,
                   streamVars, loggerVars>>

\* RemoteLogger.log: `assert self.server_log.recv() == LOG_ACK`
RemoteLogger_log_recv(p) ==
    /\ ppc[p] = "log_recv"
    /\ outbox[p] # <<>>
    /\ outbox' = [outbox EXCEPT ![p] = Tail(@)]
    /\ ppc' = [ppc EXCEPT ![p] =
                  IF outbox[p][1] = LOG_ACK THEN "idle" ELSE "failed"]
    /\ pret' = [pret EXCEPT ![p] =
                   IF outbox[p][1] = LOG_ACK THEN @ + 1 ELSE @]
    /\ UNCHANGED <<brokerVars, inbox, pname, pclosed, nsent, plog, reclosed,
                   streamVars, loggerVars>>

\* a close() that leaves self.closed as it was
closed_after_close_kept(flag) == flag

\* `self.closed = True` at the end of close()
closed_after_close(flag) == TRUE

\* RemoteLogger.close on a logger that is not closed: the send of DONE
RemoteLogger_close(p) ==
    /\ ppc[p] = "idle"
    /\ ~pclosed[p]
    /\ Request(p, <<LOG_DONE>>)
    /\ ppc' = [ppc EXCEPT ![p] = "close_recv"]
    /\ UNCHANGED <<brokerVars, outbox, pname, pclosed, nsent, callVars,
                   streamVars, loggerVars>>

\* RemoteLogger.close, __exit__ or __del__ on a logger that is closed: the
\* `if not self.closed` body is skipped
RemoteLogger_close_closed(p) ==
    /\ ppc[p] \in {"idle", "failed"}
    /\ pclosed[p]
    /\ Len(reclosed) < MaxReclose
    /\ reclosed' = Append(reclosed, p)
    /\ UNCHANGED <<brokerVars, wireVars, ppc, pname, pclosed, nsent, plog,
                   pret, streamVars, loggerVars>>

\* a RemoteLogger that, once closed, is constructed again on the same
\* socket
RemoteLogger_close_recv_rejoin(p) ==
    /\ ppc[p] = "close_recv"
    /\ outbox[p] # <<>>
    /\ outbox' = [outbox EXCEPT ![p] = Tail(@)]
    /\ pclosed' = [pclosed EXCEPT ![p] = TRUE]
    /\ ppc' = [ppc EXCEPT ![p] = "new"]
    /\ UNCHANGED <<brokerVars, inbox, pname, nsent, callVars, streamVars,
                   loggerVars>>

\* RemoteLogger.close: `assert self.server_log.recv() == LOG_DONE`
RemoteLogger_close_recv(p) ==
    /\ ppc[p] = "close_recv"
    /\ outbox[p] # <<>>
    /\ outbox' = [outbox EXCEPT ![p] = Tail(@)]
    /\ IF outbox[p][1] = LOG_DONE
       THEN /\ pclosed' = [pclosed EXCEPT ![p] = closed_after_close(@)]
            /\ ppc' = [ppc EXCEPT ![p] = "idle"]
       ELSE /\ pclosed' = pclosed
            /\ ppc' = [ppc EXCEPT ![p] = "failed"]
    /\ UNCHANGED <<brokerVars, inbox, pname, nsent, callVars, streamVars, loggerVars>>

\* the identity of a peer that is not a RemoteLogger
RoguePeer == "C"

\* what such a peer sends on its REQ socket: a JOIN, a DONE or an ENTRY
RogueRequests ==
    { <<LOG_READY, <<>> >>, <<LOG_DONE>>, <<dumps("x" :> IntV(0))>> }

\* the peer's own code sends a request, the first or the second, whatever
\* the aggregation protocol allows
rogue_send(p, frames) ==
    /\ p = RoguePeer
    /\ ppc[p] \in {"new", "rogue"}
    /\ Request(p, frames)
    /\ ppc' = [ppc EXCEPT ![p] = IF @ = "new" THEN "rogue_recv"
                                 ELSE "rogue_recv2"]
    /\ UNCHANGED <<brokerVars, outbox, pname, pclosed, nsent, callVars,
                   streamVars, loggerVars>>

\* the peer takes the reply to its request, whatever it is
rogue_recv(p) ==
    /\ ppc[p] \in {"rogue_recv", "rogue_recv2"}
    /\ outbox[p] # <<>>
    /\ outbox' = [outbox EXCEPT ![p] = Tail(@)]
    /\ ppc' = [ppc EXCEPT ![p] = IF @ = "rogue_recv" THEN "rogue"
                                 ELSE "rogue_done"]
    /\ UNCHANGED <<brokerVars, inbox, pname, pclosed, nsent, callVars,
                   streamVars, loggerVars>>

(***************************************************************************)
(* Dispatcher: _Logger and its handlers                                    *)
(***************************************************************************)
\* a value json.dumps has no encoding for (serialize_numpy raises TypeError)
ObjV == [kind |-> "obj", n |-> 0, s |-> ""]

\* what a handler's log() is called with: a dict, None or a JSON text
DictItem(d) == [kind |-> "dict", dict |-> d, text |-> <<>>]
NoneItem == [kind |-> "none", dict |-> <<>>, text |-> <<>>]
TextItem(t) == [kind |-> "text", dict |-> <<>>, text |-> t]

\* the filter callables handlers are built with: "copy" stores the value
\* of x under i as well, "strip" removes x
Filters == {"copy", "strip"}

\* filter(entry) for one filter callable
ApplyFilter(f, d) ==
    IF f = "copy"
    THEN (IF "x" \in DOMAIN d THEN SetItem(d, "i", d["x"]) ELSE d)
    ELSE DelItem(d, "x")

\* the value of the local `entry` after the loop of Handler.filter
RECURSIVE FilterLoop(_, _)
FilterLoop(filters, d) ==
    IF filters = <<>> THEN d
    ELSE FilterLoop(Tail(filters), ApplyFilter(Head(filters), d))

\* Handler.filter: the loop rebinds the local `entry`, and the method ends
\* without a return statement, so the call evaluates to None
Handler_filter(filters, d) ==
    LET entry == FilterLoop(filters, d)
    IN NoneItem

\* frozenset(handler.filters)
frozenset(filters) == {filters[j] : j \in DOMAIN filters}

\* whether json.dumps(item, default=serialize_numpy) has a result
Serializable(item) ==
    item.kind = "none" \/ \A k \in DOMAIN item.dict : item.dict[k] # ObjV

\* json.dumps of a filtered entry: None becomes null
json_dumps(item) ==
    IF item.kind = "none" THEN <<"null">> ELSE dumps(item.dict)

\* handler objects: the class, the filters argument and what fp is
Handler(class, filters, fp) == [class |-> class, filters |-> filters, fp |-> fp]

\* a handler that is never handed serialized data
JSON_never(handler) == FALSE

\* the JSON attribute of the handler's class
JSON(handler) == handler.class \in {"JSONHandler", "ServerHandler"}

\* the handler lists tried: the first two are built by Logger(), with and
\* without a filename, the others are passed to _Logger directly
HandlerLists ==
    { << Handler("JSONHandler", <<>>, "file"),
         Handler("PrintHandler", <<>>, "stdout"),
         Handler("ServerHandler", <<>>, "socket") >>,
      << Handler("PrintHandler", <<>>, "stdout"),
         Handler("ServerHandler", <<>>, "socket") >>,
      << Handler("JSONHandler", <<"copy", "strip">>, "file"),
         Handler("ServerHandler", <<"strip", "copy">>, "socket"),
         Handler("PrintHandler", <<>>, "stdout") >>,
      << Handler("JSONHandler", <<>>, "file"),
         Handler("JSONHandler", <<"strip">>, "file"),
         Handler("ServerHandler", <<"strip">>, "socket") >>,
      << Handler("PrintHandler", <<"copy">>, "file"),
         Handler("JSONHandler", <<>>, "file") >>,
      << Handler("PrintHandler", <<>>, "file"),
         Handler("JSONHandler", <<>>, "file"),
         Handler("ServerHandler", <<>>, "socket") >> }

\* an open fp with nothing written
NewFile == [closed |-> FALSE, buf |-> <<>>, out |-> <<>>]

\* a close that flushes the buffer and does not empty it
fp_close_keep_buffer(file) ==
    [closed |-> TRUE, buf |-> file.buf, out |-> file.out \o file.buf]

\* fp.close(): flushes the buffer; no effect on a closed file
fp_close(file) ==
    IF file.closed THEN file
    ELSE [closed |-> TRUE, buf |-> <<>>, out |-> file.out \o file.buf]

\* Handler.close (pass) and FileHandler.close: fp.close() twice unless fp
\* is a standard stream
Handler_close(handler, file) ==
    IF handler.class \in {"JSONHandler", "PrintHandler"}
       /\ handler.fp = "file"
    THEN fp_close(fp_close(file))
    ELSE file

\* fp.write(data): buffered for a file, ValueError on a closed file
fp_write(handler, file, data) ==
    IF file.closed THEN [ok |-> FALSE, file |-> file]
    ELSE IF handler.fp = "file"
    THEN [ok |-> TRUE, file |-> [file EXCEPT !.buf = Append(@, data)]]
    ELSE [ok |-> TRUE, file |-> [file EXCEPT !.out = Append(@, data)]]

\* handler.log(item): PrintHandler calls formatter(entry, fp), and
\* simple_formatter iterates over the entry, which fails on None;
\* JSONHandler writes entry + '\n'; ServerHandler sends the entry from its
\* socket
Handler_log(handler, file, item) ==
    IF handler.class = "PrintHandler"
    THEN (IF item.kind = "none" THEN [ok |-> FALSE, file |-> file]
          ELSE fp_write(handler, file, item))
    ELSE IF handler.class = "JSONHandler"
    THEN fp_write(handler, file, TextItem(item.text \o <<"\n">>))
    ELSE fp_write(handler, file, item)

\* dicts that are not emptied when log() is entered
NewCache_kept(cache) == cache

\* `filtered_entries = {}` and `serialized_entries = {}` in log()
NewCache(cache) == <<>>

\* an exception of handler.log that is caught in log()
Propagates_caught(ok) == FALSE

\* log() has no try statement: an exception of handler.log leaves log()
Propagates(ok) == ~ok

\* the entries of the k-th log() call tried: {"x": k} and {"x": object()}
LogEntries(k) == { ("x" :> IntV(k)), ("x" :> ObjV) }

\* _Logger.log up to the loop over the handlers
Logger_log(entry) ==
    /\ lpc = "idle"
    /\ ncall < MaxCalls
    /\ ncall' = ncall + 1
    /\ args' = Append(args, entry)
    /\ self_entries' = deque_append(self_entries, entry, lmaxlen)
    /\ filtered_entries' = NewCache(filtered_entries)
    /\ serialized_entries' = NewCache(serialized_entries)
    /\ lentry' = entry
    /\ li' = 1
    /\ lpc' = "loop"
    /\ UNCHANGED <<handlers, lmaxlen, sinkVars, nclose, runs, results,
                   closes, streamVars, remoteVars>>

\* _Logger.log: one iteration of `for handler in self.handlers`
Logger_log_handler ==
    /\ lpc = "loop"
    /\ li <= Len(handlers)
    /\ LET handler == handlers[li]
           filters == frozenset(handler.filters)
           runFilter == filters # {} /\ filters \notin DOMAIN filtered_entries
           filtered == IF runFilter
                       THEN SetItem(filtered_entries, filters,
                                    Handler_filter(handler.filters, lentry))
                       ELSE filtered_entries
           filtered_entry == IF filters # {} THEN filtered[filters]
                             ELSE DictItem(lentry)
           runDumps == JSON(handler)
                       /\ filters \notin DOMAIN serialized_entries
           serialized == IF runDumps /\ Serializable(filtered_entry)
                         THEN SetItem(serialized_entries, filters,
                                      TextItem(json_dumps(filtered_entry)))
                         ELSE serialized_entries
           ran == (IF runFilter
                   THEN <<[call |-> ncall, op |-> "filter", key |-> filters]>>
                   ELSE <<>>)
                  \o (IF runDumps
                      THEN <<[call |-> ncall, op |-> "dumps", key |-> filters]>>
                      ELSE <<>>)
       IN /\ filtered_entries' = filtered
          /\ serialized_entries' = serialized
          /\ runs' = runs \o ran
          /\ IF runDumps /\ ~Serializable(filtered_entry)
             THEN /\ lpc' = "idle"
                  /\ results' = Append(results, "TypeError")
                  /\ UNCHANGED <<li, sinkVars>>
             ELSE LET item == IF JSON(handler) THEN serialized[filters]
                              ELSE filtered_entry
                      r == Handler_log(handler, files[li], item)
                  IN /\ received' = Append(received,
                                          [call |-> ncall, h |-> li,
                                           item |-> item, ok |-> r.ok])
                     /\ files' = [files EXCEPT ![li] = r.file]
                     /\ IF Propagates(r.ok)
                        THEN /\ lpc' = "idle"
                             /\ results' = Append(results, "HandlerError")
                             /\ UNCHANGED li
                        ELSE /\ li' = li + 1
                             /\ UNCHANGED <<lpc, results>>
    /\ UNCHANGED <<handlers, lmaxlen, self_entries, lentry, ncall, args,
                   nclose, closes, streamVars, remoteVars>>

\* _Logger.log: the loop has ended and log() returns
Logger_log_return ==
    /\ lpc = "loop"
    /\ li > Len(handlers)
    /\ lpc' = "idle"
    /\ results' = Append(results, "returned")
    /\ UNCHANGED <<handlers, lmaxlen, self_entries, li, lentry,
                   filtered_entries, serialized_entries, sinkVars, ncall,
                   args, nclose, runs, closes, streamVars, remoteVars>>

\* _Logger.close (also __exit__) up to the loop over the handlers
Logger_close ==
    /\ lpc = "idle"
    /\ nclose < MaxCloses
    /\ nclose' = nclose + 1
    /\ li' = 1
    /\ lpc' = "closing"
    /\ UNCHANGED <<handlers, lmaxlen, self_entries, lentry, filtered_entries,
                   serialized_entries, sinkVars, ncall, args, runs,
                   results, closes, streamVars, remoteVars>>

\* _Logger.close: one iteration of `for handler in self.handlers`
Logger_close_handler ==
    /\ lpc = "closing"
    /\ li <= Len(handlers)
    /\ files' = [files EXCEPT ![li] = Handler_close(handlers[li], @)]
    /\ closes' = Append(closes, [call |-> nclose, h |-> li])
    /\ li' = li + 1
    /\ UNCHANGED <<handlers, lmaxlen, self_entries, lpc, lentry,
                   filtered_entries, serialized_entries, received, ncall,
                   args, nclose, runs, results, streamVars, remoteVars>>

\* _Logger.close: the loop has ended and close() returns
Logger_close_return ==
    /\ lpc = "closing"
    /\ li > Len(handlers)
    /\ lpc' = "idle"
    /\ UNCHANGED <<handlers, lmaxlen, self_entries, li, lentry,
                   filtered_entries, serialized_entries, sinkVars, ghostVars,
                   streamVars, remoteVars>>

(***************************************************************************)
(* Initial states                                                          *)
(***************************************************************************)
\* the history capacities tried
Capacities == 0..MaxCap \cup {SysMaxsize}

\* a streaming handler just constructed, no client connected
StreamStart ==
    /\ sequence = 0
    /\ pubpc = "idle"
    /\ pending = <<>>
    /\ nlog = 0
    /\ broadcast = <<>>
    /\ subscribers = {}
    /\ updates = <<>>
    /\ store = <<>>
    /\ mpc = "polling"
    /\ requests = <<>>
    /\ snapIn = [c \in StreamClients |-> <<>>]
    /\ subIn = [c \in StreamClients |-> <<>>]
    /\ csub = [c \in StreamClients |-> "none"]
    /\ cseq = [c \in StreamClients |-> 0]
    /\ centries = [c \in StreamClients |-> <<>>]
    /\ called = [c \in StreamClients |-> <<>>]
    /\ joinseq = [c \in StreamClients |-> 0]

\* a broker just bound, no RemoteLogger constructed
RemoteStart ==
    /\ bpc = "wait_first"
    /\ client_id = 1
    /\ clients = <<>>
    /\ inbox = [p \in Producers |-> <<>>]
    /\ outbox = [p \in Producers |-> <<>>]
    /\ logged = <<>>
    /\ handled = <<>>
    /\ sent = <<>>
    /\ sessions = <<>>
    /\ ppc = [p \in Producers |-> "new"]
    /\ pclosed = [p \in Producers |-> TRUE]
    /\ nsent = 0
    /\ plog = [p \in Producers |-> <<>>]
    /\ pret = [p \in Producers |-> 0]
    /\ reclosed = <<>>

\* a Dispatcher just constructed with the given handlers and maxlen
LoggerStart(hs, cap) ==
    /\ handlers = hs
    /\ lmaxlen = cap
    /\ self_entries = <<>>
    /\ lpc = "idle"
    /\ li = 0
    /\ lentry = <<>>
    /\ filtered_entries = <<>>
    /\ serialized_entries = <<>>
    /\ files = [h \in DOMAIN hs |-> NewFile]
    /\ received = <<>>
    /\ ncall = 0
    /\ args = <<>>
    /\ nclose = 0
    /\ runs = <<>>
    /\ results = <<>>
    /\ closes = <<>>

(***************************************************************************)
(* Spec: the streaming handler, the Snapshot Manager and the clients       *)
(***************************************************************************)
Init ==
    /\ persistent \in BOOLEAN
    /\ maxlen \in Capacities
    /\ persistent = FALSE => maxlen = SysMaxsize
    /\ cmode \in [StreamClients -> BOOLEAN]
    /\ cpc \in [StreamClients -> {"start", "main"}]
    /\ \A c \in StreamClients : cpc[c] = "main" => cmode[c]
    /\ StreamStart
    /\ RemoteStart
    /\ pname = ProducerNames
    /\ LoggerStart(<<>>, 0)

Next ==
    \/ \E entry \in Payloads(nlog + 1) : ServerHandler_log(entry)
    \/ \E entry \in Payloads(nlog + 1) : PersistentServerHandler_log(entry)
    \/ PersistentServerHandler_log_updates
    \/ state_manager
    \/ \E c \in StreamClients : callback_start(c)
    \/ \E c \in StreamClients : get_snapshot(c)
    \/ \E c \in StreamClients : get_snapshot_recv(c)
    \/ \E c \in StreamClients : sub_connected(c)
    \/ \E c \in StreamClients : callback_recv(c)

Spec == Init /\ [][Next]_vars

(***************************************************************************)
(* SpecRogue: a persistent handler, its Snapshot Manager and clients some  *)
(* of which send a request that is not a snapshot request                  *)
(***************************************************************************)
InitRogue ==
    /\ persistent = TRUE
    /\ maxlen \in Capacities
    /\ cmode = [c \in StreamClients |-> TRUE]
    /\ cpc \in [StreamClients -> {"main", "rogue"}]
    /\ \E c \in StreamClients : cpc[c] = "rogue"
    /\ StreamStart
    /\ RemoteStart
    /\ pname = ProducerNames
    /\ LoggerStart(<<>>, 0)

NextRogue ==
    \/ \E entry \in Payloads(nlog + 1) : PersistentServerHandler_log(entry)
    \/ PersistentServerHandler_log_updates
    \/ state_manager
    \/ \E c \in StreamClients : get_snapshot(c)
    \/ \E c \in StreamClients : bad_request(c)
    \/ \E c \in StreamClients : get_snapshot_recv(c)
    \/ \E c \in StreamClients : sub_connected(c)
    \/ \E c \in StreamClients : callback_recv(c)

SpecRogue == InitRogue /\ [][NextRogue]_vars

(***************************************************************************)
(* SpecPlot: a persistent handler, its Snapshot Manager and plot clients   *)
(***************************************************************************)
InitPlot ==
    /\ persistent = TRUE
    /\ maxlen \in Capacities
    /\ cmode \in [StreamClients -> BOOLEAN]
    /\ cpc = [c \in StreamClients |-> "plot"]
    /\ StreamStart
    /\ RemoteStart
    /\ pname = ProducerNames
    /\ LoggerStart(<<>>, 0)

NextPlot ==
    \/ \E entry \in Payloads(nlog + 1) : PersistentServerHandler_log(entry)
    \/ PersistentServerHandler_log_updates
    \/ state_manager
    \/ \E c \in StreamClients : plot_connect(c)
    \/ \E c \in StreamClients : plot_connect_recv(c)
    \/ \E c \in StreamClients : sub_connected(c)
    \/ \E c \in StreamClients : plot_update(c)

SpecPlot == InitPlot /\ [][NextPlot]_vars

(***************************************************************************)
(* SpecTest: a persistent handler with unbounded history, its Snapshot     *)
(* Manager and clients that subscribe before they request the snapshot     *)
(***************************************************************************)
InitTest ==
    /\ persistent = TRUE
    /\ maxlen = SysMaxsize
    /\ cmode = [c \in StreamClients |-> TRUE]
    /\ cpc = [c \in StreamClients |-> "test"]
    /\ StreamStart
    /\ RemoteStart
    /\ pname = ProducerNames
    /\ LoggerStart(<<>>, 0)

NextTest ==
    \/ \E entry \in Payloads(nlog + 1) : PersistentServerHandler_log(entry)
    \/ PersistentServerHandler_log_updates
    \/ state_manager
    \/ \E c \in StreamClients : test_client_connect(c)
    \/ \E c \in StreamClients : test_client_request(c)
    \/ \E c \in StreamClients : test_client_snapshot(c)
    \/ \E c \in StreamClients : sub_connected(c)
    \/ \E c \in StreamClients : test_client_recv(c)

SpecTest == InitTest /\ [][NextTest]_vars

(***************************************************************************)
(* SpecBroker: the Aggregation Broker and the RemoteLoggers                *)
(***************************************************************************)
InitBroker ==
    /\ persistent = FALSE
    /\ maxlen = SysMaxsize
    /\ cmode = [c \in StreamClients |-> FALSE]
    /\ cpc = [c \in StreamClients |-> "start"]
    /\ StreamStart
    /\ RemoteStart
    /\ pname = ProducerNames
    /\ LoggerStart(<<>>, 0)

NextBroker ==
    \/ \E p \in Producers : server_logger_first(p)
    \/ \E p \in Producers : server_logger_loop(p)
    \/ \E p \in Producers : RemoteLogger_init(p)
    \/ \E p \in Producers : RemoteLogger_init_recv(p)
    \/ \E p \in Producers, entry \in ProducerEntries(nsent + 1) :
          RemoteLogger_log(p, entry)
    \/ \E p \in Producers : RemoteLogger_log_recv(p)
    \/ \E p \in Producers : RemoteLogger_close(p)
    \/ \E p \in Producers : RemoteLogger_close_recv(p)

SpecBroker == InitBroker /\ [][NextBroker]_vars

\* Producers that join and close, and call close() again when closed
NextClose ==
    \/ \E p \in Producers : server_logger_first(p)
    \/ \E p \in Producers : server_logger_loop(p)
    \/ \E p \in Producers : RemoteLogger_init(p)
    \/ \E p \in Producers : RemoteLogger_init_recv(p)
    \/ \E p \in Producers : RemoteLogger_close(p)
    \/ \E p \in Producers : RemoteLogger_close_recv(p)
    \/ \E p \in Producers : RemoteLogger_close_closed(p)

SpecClose == InitBroker /\ [][NextClose]_vars

\* The broker, RemoteLoggers and a peer that does not keep to the protocol
NextBrokerRogue ==
    \/ \E p \in Producers : server_logger_first(p)
    \/ \E p \in Producers : server_logger_loop(p)
    \/ \E p \in Producers \ {RoguePeer} : RemoteLogger_init(p)
    \/ \E p \in Producers : RemoteLogger_init_recv(p)
    \/ \E p \in Producers, entry \in ProducerEntries(nsent + 1) :
          RemoteLogger_log(p, entry)
    \/ \E p \in Producers : RemoteLogger_log_recv(p)
    \/ \E p \in Producers : RemoteLogger_close(p)
    \/ \E p \in Producers : RemoteLogger_close_recv(p)
    \/ \E p \in Producers, frames \in RogueRequests : rogue_send(p, frames)
    \/ \E p \in Producers : rogue_recv(p)

SpecBrokerRogue == InitBroker /\ [][NextBrokerRogue]_vars

\* the name arguments when two RemoteLoggers are given the same name
SameNames == [p \in Producers |-> IF p = "C" THEN "" ELSE "w"]

\* The broker and RemoteLoggers two of which were given the same name
InitNames ==
    /\ persistent = FALSE
    /\ maxlen = SysMaxsize
    /\ cmode = [c \in StreamClients |-> FALSE]
    /\ cpc = [c \in StreamClients |-> "start"]
    /\ StreamStart
    /\ RemoteStart
    /\ pname = SameNames
    /\ LoggerStart(<<>>, 0)

SpecNames == InitNames /\ [][NextBroker]_vars

\* The broker and the producers where every thread that can take a step
\* eventually takes one
SpecBrokerFair ==
    /\ InitBroker
    /\ [][NextBroker]_vars
    /\ \A p \in Producers :
          /\ WF_vars(server_logger_first(p))
          /\ WF_vars(server_logger_loop(p))
          /\ WF_vars(RemoteLogger_init_recv(p))
          /\ WF_vars(RemoteLogger_log_recv(p))
          /\ WF_vars(RemoteLogger_close_recv(p))

\* The fair broker and producers where, in addition, every constructed
\* RemoteLogger that is not closed eventually has close() called on it
SpecBrokerClosing ==
    /\ SpecBrokerFair
    /\ \A p \in Producers : WF_vars(RemoteLogger_close(p))

(***************************************************************************)
(* SpecLogger: the Dispatcher and its handlers                             *)
(***************************************************************************)
\* the maxlen arguments tried: 0 (the default), 1 and None
Retentions == {0, 1, SysMaxsize}

\* the stream_maxlen arguments tried: 0 (no History Buffer) and MaxCap
StreamRetentions == {0, MaxCap}

\* a Dispatcher whose retention buffer is given the History Buffer's
\* capacity
Logger_maxlen_stream(maxlen_, stream_maxlen) == stream_maxlen

\* Logger(): `return _Logger(handlers, maxlen=maxlen, **kwargs)`, the
\* capacity of self._entries
Logger_maxlen(maxlen_, stream_maxlen) == maxlen_

InitLogger ==
    /\ \E stream_maxlen \in StreamRetentions :
          /\ persistent = (stream_maxlen # 0)
          /\ maxlen = IF stream_maxlen # 0 THEN stream_maxlen ELSE SysMaxsize
          /\ \E hs \in HandlerLists : \E cap \in Retentions :
                LoggerStart(hs, Logger_maxlen(cap, stream_maxlen))
    /\ cmode = [c \in StreamClients |-> FALSE]
    /\ cpc = [c \in StreamClients |-> "start"]
    /\ StreamStart
    /\ RemoteStart
    /\ pname = ProducerNames

NextLogger ==
    \/ \E entry \in LogEntries(ncall + 1) : Logger_log(entry)
    \/ Logger_log_handler
    \/ Logger_log_return
    \/ Logger_close
    \/ Logger_close_handler
    \/ Logger_close_return

SpecLogger == InitLogger /\ [][NextLogger]_vars

(***************************************************************************)
(* Properties of the Streaming Publisher                                   *)
(***************************************************************************)
\* a two-part message as the (sequence, entry) pair stream.recv returns
Received(msg) == <<int(msg[1]), loads(msg[2])>>

\* C1: the k-th log() call on a streaming handler broadcasts sequence
\* number k: the counter is 0 before the first call, every call adds one
\* message, the numbers are 1, 2, 3, ... without a gap, and none is -1.
C1_SequenceNumbers ==
    /\ sequence = nlog
    /\ Len(broadcast) = nlog
    /\ \A k \in 1..Len(broadcast) :
          /\ broadcast[k][1] = str(k)
          /\ int(broadcast[k][1]) = k
          /\ int(broadcast[k][1]) # 0 - 1

C1_Witness == persistent /\ pubpc = "idle" /\ Len(broadcast) >= 3

C3_DedupLaw ==
    \A c \in StreamClients :
        (cmode[c] /\ cpc[c] = "recv" /\ maxlen = SysMaxsize) =>
            \A k \in 1..Len(called[c]) : called[c][k][1] = k

(***************************************************************************)
(* Properties of the Snapshot Manager                                      *)
(***************************************************************************)
\* a step of state_manager that serves a valid snapshot request
ServesSnapshot ==
    /\ requests # <<>>
    /\ requests' = Tail(requests)
    /\ requests[1].request = ICANHAZ

\* the messages a step has added to the DEALER socket of client c
Added(c) == SubSeq(snapIn'[c], Len(snapIn[c]) + 1, Len(snapIn'[c]))

\* the number of updates state_manager has taken from the pipe
UpdatesTaken == LogsReturned - Len(updates)

\* the last `cap` of the first m broadcast messages, as (sequence, entry)
LastBroadcast(m, cap) ==
    LET first == IF m > cap THEN m - cap + 1 ELSE 1
    IN [j \in 1..(m - first + 1) |->
           <<first + j - 1, broadcast[first + j - 1][2]>>]

\* the reply that holds the given (sequence, entry) pairs
ReplyOf(pairs) ==
    [j \in 1..Len(pairs) |-> <<str(pairs[j][1]), pairs[j][2]>>]
        \o << <<<<"-", "1">>, <<Quote, Quote>>>> >>

\* C4 as claimed: a snapshot requested after the N-th log() call has
\* returned (and served before another call starts) holds exactly the
\* sequence numbers max(1, N-C+1)..N, then the terminal marker.
C4_SnapshotAfterLog ==
    [][(ServesSnapshot /\ requests[1].returned = nlog) =>
          Added(requests[1].client) = ReplyOf(LastBroadcast(nlog, maxlen))]_vars

\* C4 amended: a snapshot served when state_manager has taken M of the
\* updates from the pipe holds exactly the entries with sequence numbers
\* max(1, M-C+1)..M, oldest first, then the terminal marker.
C4_SnapshotOfTaken ==
    [][ServesSnapshot =>
          Added(requests[1].client) = ReplyOf(LastBroadcast(UpdatesTaken', maxlen))]_vars

C4_Witness ==
    /\ maxlen = 2 /\ nlog = 3
    /\ \E c \in StreamClients :
          /\ Len(snapIn[c]) = 3
          /\ snapIn[c][1][1] = <<"2">>
          /\ snapIn[c][2][1] = <<"3">>
          /\ snapIn[c][3][1] = <<"-", "1">>

\* C5: a valid snapshot request is answered to the requester and to nobody
\* else, with one message per pair of the store, oldest first, then one
\* terminal message with sequence -1; no message before it is negative;
\* and no DEALER socket is sent anything else.
C5_SnapshotReply ==
    [][/\ ServesSnapshot =>
            LET c == requests[1].client
                reply == Added(c)
            IN /\ Len(reply) = Len(store') + 1
               /\ \A j \in 1..Len(store') :
                     /\ reply[j] = <<str(store'[j][1]), store'[j][2]>>
                     /\ int(reply[j][1]) >= 0
               /\ int(reply[Len(reply)][1]) = 0 - 1
               /\ reply[Len(reply)][2] = EmptyPayload
               /\ \A d \in StreamClients \ {c} : snapIn'[d] = snapIn[d]
       /\ \A d \in StreamClients :
            Len(snapIn'[d]) > Len(snapIn[d]) =>
                ServesSnapshot /\ requests[1].client = d]_vars

C5_Witness ==
    \E c \in StreamClients :
        /\ cpc[c] = "get_snapshot"
        /\ Len(snapIn[c]) >= 3
        /\ \E d \in StreamClients \ {c} :
              cpc[d] = "get_snapshot" /\ snapIn[d] = <<>>

\* C6: the store never holds more than maxlen pairs, and it holds the most
\* recent min(maxlen, M) of the M updates taken from the pipe, in the order
\* they arrived.
C6_HistoryBuffer ==
    persistent =>
        /\ Len(store) <= maxlen
        /\ store = LastBroadcast(UpdatesTaken, maxlen)
        /\ \A j \in 1..Len(store) :
              store[j][1] = UpdatesTaken - Len(store) + j

C6_Witness ==
    /\ maxlen = 2 /\ Len(store) = 2
    /\ store[1][1] = 2 /\ store[2][1] = 3

(***************************************************************************)
(* Properties of the Aggregation Broker                                    *)
(***************************************************************************)
\* whether a message the broker received is an ENTRY
IsEntry(h) == h.request # LOG_READY /\ h.request # LOG_DONE

\* the ENTRY messages the broker received, in order
EntryMsgs == SelectSeq(handled, IsEntry)

\* the session recorded for an identity (each identity joins once)
SessionOf(p) == sessions[CHOOSE k \in 1..Len(sessions) : sessions[k].client = p]

\* C7: the broker records no session, forwards nothing and replies to
\* nothing before its first JOIN; inside its loop some session is active;
\* it has returned only if no session is active and every producer that
\* joined has sent DONE; and once it has returned it takes no message and
\* changes nothing.
C7_BrokerLifetime ==
    /\ [](/\ bpc = "wait_first" =>
                DOMAIN clients = {} /\ logged = <<>> /\ sent = <<>>
          /\ bpc \in {"loop", "returned"} => handled[1].request = LOG_READY
          /\ bpc = "loop" => DOMAIN clients # {}
          /\ bpc = "returned" =>
                /\ DOMAIN clients = {}
                /\ handled[Len(handled)].request = LOG_DONE
                /\ \A k \in 1..Len(sessions) :
                      \E j \in 1..Len(handled) :
                          /\ handled[j].client = sessions[k].client
                          /\ handled[j].request = LOG_DONE)
    /\ [][bpc = "returned" =>
             /\ UNCHANGED brokerVars
             /\ \A p \in Producers :
                   /\ Len(inbox'[p]) >= Len(inbox[p])
                   /\ Len(outbox'[p]) <= Len(outbox[p])]_vars

C7_Witness ==
    /\ bpc = "returned"
    /\ Len(sessions) >= 2
    /\ logged # <<>>
    /\ \E p \in Producers : inbox[p] # <<>>

\* C8: the k-th entry handed to the Dispatcher carries remote_log equal to
\* the tag of its sender's session: the name the RemoteLogger was given, or
\* else the ordinal assigned at its JOIN; the other fields are the
\* payload's, and a remote_log of the payload is replaced.
C8_RemoteLogTag ==
    /\ Len(logged) <= Len(EntryMsgs)
    /\ \A k \in 1..Len(logged) :
          LET p == EntryMsgs[k].client
              payload == loads(EntryMsgs[k].request)
          IN /\ logged[k]["remote_log"] =
                   IF pname[p] # "" THEN StrV(pname[p])
                   ELSE IntV(SessionOf(p).ordinal)
             /\ logged[k]["remote_log"] # StrV("mine")
             /\ \A f \in DOMAIN payload \ {"remote_log"} :
                   f \in DOMAIN logged[k] /\ logged[k][f] = payload[f]

C8_Witness ==
    \E k \in 1..Len(logged) : \E m \in 1..Len(logged) :
        /\ "remote_log" \in DOMAIN loads(EntryMsgs[k].request)
        /\ logged[k]["remote_log"].kind = "int"
        /\ logged[m]["remote_log"] = StrV("w")

\* C9: the k-th JOIN is given ordinal k, the counter equals the number of
\* JOINs (1 before the first), an unnamed session is tagged with its
\* ordinal, and no two sessions ever recorded share an ordinal.
C9_Ordinals ==
    /\ client_id = IF sessions = <<>> THEN 1 ELSE Len(sessions)
    /\ \A k \in 1..Len(sessions) :
          /\ sessions[k].ordinal = k
          /\ pname[sessions[k].client] = "" => sessions[k].tag = IntV(k)
    /\ \A k \in 1..Len(sessions) : \A m \in 1..Len(sessions) :
          sessions[k].ordinal = sessions[m].ordinal => k = m

C9_Witness ==
    /\ Len(sessions) = 3
    /\ \E i \in 1..Len(handled) : \E j \in 1..Len(handled) :
          /\ i < j
          /\ handled[i].request = LOG_DONE
          /\ handled[j].request = LOG_READY

\* C10: every message the broker has taken has exactly one reply, sent to
\* its sender (the message whose assertion stopped the broker has none):
\* READY for a JOIN, DONE for a LEAVE, ACK for an ENTRY, and there are as
\* many ACKs as entries handed to the Dispatcher.
C10_OneReply ==
    /\ Len(sent) = Len(handled) - (IF bpc = "failed" THEN 1 ELSE 0)
    /\ \A k \in 1..Len(sent) :
          /\ sent[k].client = handled[k].client
          /\ sent[k].token =
                IF handled[k].request = LOG_READY THEN LOG_READY
                ELSE IF handled[k].request = LOG_DONE THEN LOG_DONE
                ELSE LOG_ACK
    /\ Len(SelectSeq(sent, LAMBDA r : r.token = LOG_ACK)) = Len(logged)
    /\ \A p \in Producers :
          Len(outbox[p]) <= Len(SelectSeq(sent, LAMBDA r : r.client = p))

C10_Witness ==
    /\ Len(sent) >= 5
    /\ \E i \in 1..Len(sent) : sent[i].token = LOG_READY
    /\ \E i \in 1..Len(sent) : sent[i].token = LOG_ACK
    /\ \E i \in 1..Len(sent) : sent[i].token = LOG_DONE

\* the ENTRY messages of producer p that the broker has taken, in order
EntriesTaken(p) == SelectSeq(EntryMsgs, LAMBDA h : h.client = p)

\* the ENTRY messages of producer p that are still on their way
EntriesInFlight(p) ==
    SelectSeq(inbox[p], LAMBDA m : m[2] # LOG_READY /\ m[2] # LOG_DONE)

\* the places of the entry with payload x among the Dispatcher's entries
PlacesOf(x) == {k \in 1..Len(logged) : logged[k]["x"] = IntV(x)}

\* C11: each log() call of a RemoteLogger puts exactly one ENTRY on the
\* wire, the serialized entry of that call; the entry of every call that
\* has returned is among the entries the Dispatcher received, once; and the
\* entries of one RemoteLogger are in the Dispatcher in the order of the
\* calls.
C11_LogHandshake ==
    \A p \in Producers :
        /\ Len(EntriesTaken(p)) + Len(EntriesInFlight(p)) = Len(plog[p])
        /\ \A j \in 1..Len(EntriesTaken(p)) :
              loads(EntriesTaken(p)[j].request)["x"] = IntV(plog[p][j])
        /\ pret[p] <= Len(plog[p])
        /\ \A j \in 1..pret[p] : Cardinality(PlacesOf(plog[p][j])) = 1
        /\ \A i \in 1..Len(plog[p]) : \A j \in 1..Len(plog[p]) :
              i < j => \A a \in PlacesOf(plog[p][i]) :
                          \A b \in PlacesOf(plog[p][j]) : a < b

C11_Witness ==
    \E p \in Producers :
        /\ pret[p] = 2
        /\ Len(logged) = 2
        /\ ppc[p] = "idle"

\* the number of DONE messages producer p has put on the wire
DoneSent(p) ==
    Len(SelectSeq(handled,
                  LAMBDA h : h.client = p /\ h.request = LOG_DONE))
    + Len(SelectSeq(inbox[p], LAMBDA m : m[2] = LOG_DONE))

\* C12: whatever the number of close() calls on a RemoteLogger, it puts at
\* most one DONE on the wire, and exactly one once it is closed after a
\* completed construction; a close() on a closed logger sends nothing,
\* fails nothing and changes neither the logger nor the broker.
C12_CloseIdempotent ==
    /\ [](\A p \in Producers :
             /\ DoneSent(p) <= 1
             /\ (pclosed[p] /\ ppc[p] = "idle") => DoneSent(p) = 1
             /\ ppc[p] # "failed")
    /\ [][reclosed' # reclosed =>
             UNCHANGED <<brokerVars, wireVars, ppc, pclosed>>]_vars

C12_Witness ==
    /\ Len(reclosed) = MaxReclose
    /\ DoneSent(reclosed[1]) = 1
    /\ bpc = "loop"

\* producer p waits in its constructor for a reply that no step will send
WaitsForever(p) ==
    /\ bpc \in {"returned", "failed"}
    /\ ppc[p] = "init_recv"
    /\ outbox[p] = <<>>

\* C13 as stated: a RemoteLogger construction that has sent its JOIN ends,
\* with the logger constructed or with a failure.
C13_ConstructionEnds ==
    \A p \in Producers :
        (ppc[p] = "init_recv") ~> (ppc[p] \in {"idle", "failed"})

\* C13 as amended: a constructed RemoteLogger has had its JOIN taken by
\* the broker, its session recorded and READY sent to it; the constructor
\* is left only on a reply, constructed exactly if the reply is READY; and
\* a constructor whose JOIN the broker will not take stays waiting.
C13_JoinSynchronous ==
    /\ [](\A p \in Producers :
             ppc[p] \in {"idle", "log_recv", "close_recv"} =>
                /\ \E j \in 1..Len(handled) :
                      /\ handled[j].client = p
                      /\ handled[j].request = LOG_READY
                      /\ j <= Len(sent)
                      /\ sent[j] = [client |-> p, token |-> LOG_READY]
                /\ \E k \in 1..Len(sessions) : sessions[k].client = p)
    /\ [][\A p \in Producers :
             /\ (ppc[p] = "init_recv" /\ ppc'[p] # "init_recv") =>
                   /\ outbox[p] # <<>>
                   /\ ppc'[p] = IF outbox[p][1] = LOG_READY THEN "idle"
                                ELSE "failed"
             /\ WaitsForever(p) => WaitsForever(p)']_vars

C13_Witness ==
    \E p \in Producers :
        /\ WaitsForever(p)
        /\ bpc = "returned"
        /\ inbox[p] # <<>>
        /\ \E q \in Producers : ppc[q] = "idle" /\ pclosed[q]

\* C14 as stated: a log() call on the streaming handler never waits: the
\* send of its update on the internal pipe can always be made, whatever the
\* Snapshot Manager has consumed.
C14_LogNeverBlocks ==
    (persistent /\ pubpc = "updates") => Len(updates) < PipeCapacity

(***************************************************************************)
(* Properties of the Dispatcher                                            *)
(***************************************************************************)
\* the handler.log calls made during the c-th log() call, in order
ReceivedIn(c) == SelectSeq(received, LAMBDA r : r.call = c)

\* the handler at place h is of a class that declares JSON = True
WantsJSON(h) == handlers[h].class # "PrintHandler"

\* the filtered entry of the c-th log() call for the handler at place h:
\* the entry itself without filters, else the result of its filter method
FilteredFor(c, h) ==
    IF handlers[h].filters = <<>> THEN DictItem(args[c])
    ELSE Handler_filter(handlers[h].filters, args[c])

C16_FiltersApplied ==
    \A j \in 1..Len(received) :
        LET r == received[j]
            filters == handlers[r.h].filters
            expected == FilterLoop(filters, args[r.call])
        IN filters # <<>> =>
              r.item = IF WantsJSON(r.h) THEN TextItem(dumps(expected))
                       ELSE DictItem(expected)

\* the filter set of the handler at place h
KeyOf(h) == frozenset(handlers[h].filters)

\* the filter or dumps runs of the c-th log() call for one filter set
RunsOf(c, op, key) ==
    {j \in 1..Len(runs) :
        runs[j].call = c /\ runs[j].op = op /\ runs[j].key = key}

\* C17: in one log() call the filter method runs at most once and
\* json.dumps at most once for each filter set, however many handlers have
\* that set; both dicts are empty when a log() call starts; and whatever a
\* handler is handed in a call was filtered and serialized in that call:
\* an unfiltered handler is handed the entry of that call.
C17_CallLocalCaches ==
    /\ [](/\ \A c \in 1..ncall : \A key \in SUBSET Filters :
                /\ Cardinality(RunsOf(c, "filter", key)) <= 1
                /\ Cardinality(RunsOf(c, "dumps", key)) <= 1
                /\ key = {} => RunsOf(c, "filter", key) = {}
          /\ \A j \in 1..Len(received) :
                LET r == received[j]
                IN /\ KeyOf(r.h) # {} =>
                         RunsOf(r.call, "filter", KeyOf(r.h)) # {}
                   /\ WantsJSON(r.h) =>
                         RunsOf(r.call, "dumps", KeyOf(r.h)) # {}
                   /\ KeyOf(r.h) = {} =>
                         r.item = IF WantsJSON(r.h)
                                  THEN TextItem(dumps(args[r.call]))
                                  ELSE DictItem(args[r.call]))
    /\ [][ncall' # ncall =>
             filtered_entries' = <<>> /\ serialized_entries' = <<>>]_vars

C17_Witness ==
    /\ Len(results) = 2
    /\ results[2] = "returned"
    /\ \E a \in 1..Len(handlers) : \E b \in 1..Len(handlers) :
          /\ a < b
          /\ KeyOf(a) = KeyOf(b)
          /\ KeyOf(a) # {}
          /\ WantsJSON(a) /\ WantsJSON(b)
          /\ Cardinality(RunsOf(2, "dumps", KeyOf(a))) = 1
          /\ Cardinality(RunsOf(1, "dumps", KeyOf(a))) = 1
    /\ \E h \in 1..Len(handlers) : KeyOf(h) = {} /\ WantsJSON(h)

\* the handler.close calls made during the c-th close() call, in order
ClosesIn(c) == SelectSeq(closes, LAMBDA r : r.call = c)

C19_NoPartialDelivery ==
    \A c \in 1..Len(results) :
        results[c] = "TypeError" => ReceivedIn(c) = <<>>

\* C20: a handler.log call that fails is the last one of its log() call,
\* and that log() call ends with the handler's error: the handlers before
\* it were each called once, the failing handler was called once and no
\* handler after it was called; the step in which a handler fails is the
\* step in which log() is left.
C20_HandlerFailureFatal ==
    /\ [](\A c \in 1..ncall :
             LET rs == ReceivedIn(c)
             IN /\ \A j \in 1..Len(rs) :
                      ~rs[j].ok =>
                          /\ j = Len(rs)
                          /\ c <= Len(results)
                          /\ results[c] = "HandlerError"
                /\ (c <= Len(results) /\ results[c] = "HandlerError") =>
                      /\ rs # <<>>
                      /\ ~rs[Len(rs)].ok
                      /\ \A j \in 1..Len(rs) : rs[j].h = j)
    /\ [][(Len(received') > Len(received)
            /\ ~received'[Len(received')].ok) =>
             lpc' = "idle" /\ Len(results') = Len(results) + 1]_vars

C20_Witness ==
    /\ Len(results) = 2
    /\ results[1] = "returned"
    /\ results[2] = "HandlerError"
    /\ Len(ReceivedIn(2)) < Len(handlers)
    /\ lpc = "idle"

(***************************************************************************)
(* Further properties of the streaming subsystem                           *)
(***************************************************************************)
\* C21: the loop iteration that takes a request with a body other than
\* ICANHAZ? sends no message to any client and ends the Snapshot Manager;
\* the sender of such a request is never sent anything; and once the
\* manager has ended, the store and every client's snapshot socket stay
\* as they are, and no update and no request is taken any more.
C21_BadRequestFatal ==
    /\ [](\A c \in StreamClients :
             cpc[c] \in {"rogue", "rogue_wait"} => snapIn[c] = <<>>)
    /\ [][(requests # <<>> /\ requests' = Tail(requests)
            /\ requests[1].request # ICANHAZ) =>
             /\ mpc' = "dead"
             /\ \A c \in StreamClients : Len(snapIn'[c]) <= Len(snapIn[c])]_vars
    /\ [][mpc = "dead" =>
             /\ mpc' = "dead"
             /\ store' = store
             /\ \A c \in StreamClients : Len(snapIn'[c]) <= Len(snapIn[c])
             /\ Len(updates') >= Len(updates)
             /\ Len(requests') >= Len(requests)]_vars

C21_Witness ==
    /\ mpc = "dead"
    /\ store # <<>>
    /\ updates # <<>>
    /\ \E j \in 1..Len(requests) : requests[j].request = ICANHAZ
    /\ \E c \in StreamClients : cpc[c] = "rogue_wait"

\* client c's get_snapshot() call has returned
SnapshotReturned(c) == cmode[c] /\ cpc[c] = "recv"

\* C22: every non-terminal message get_snapshot() receives is appended to
\* its entries, in receipt order, and the terminal one ends the call and
\* is not appended; the sequence it holds, and returns, is that of the
\* last entry appended, 0 if there is none, and never negative; the
\* entries returned are numbered consecutively.
C22_GetSnapshotResult ==
    /\ [](\A c \in StreamClients :
             /\ cseq[c] >= 0
             /\ cseq[c] = IF centries[c] = <<>> THEN 0
                          ELSE centries[c][Len(centries[c])][1]
             /\ \A j \in 1..Len(centries[c]) :
                   /\ centries[c][j][1] = centries[c][1][1] + j - 1
                   /\ centries[c][j][1] <= Len(broadcast)
                   /\ centries[c][j][2] = loads(broadcast[centries[c][j][1]][2]))
    /\ [][\A c \in StreamClients :
             (cpc[c] = "get_snapshot" /\ snapIn'[c] # snapIn[c]
              /\ snapIn[c] # <<>> /\ snapIn'[c] = Tail(snapIn[c])) =>
                IF int(snapIn[c][1][1]) < 0
                THEN /\ SnapshotReturned(c)'
                     /\ centries'[c] = centries[c]
                ELSE /\ cpc'[c] = "get_snapshot"
                     /\ centries'[c] = Append(centries[c],
                                             Received(snapIn[c][1]))]_vars

C22_Witness ==
    /\ \E c \in StreamClients :
          SnapshotReturned(c) /\ Len(centries[c]) >= 2 /\ cseq[c] >= 2
    /\ \E c \in StreamClients :
          SnapshotReturned(c) /\ centries[c] = <<>> /\ cseq[c] = 0

C24_StoreDistinct ==
    /\ \A j \in 1..Len(store) : \A k \in 1..Len(store) :
          j < k => store[j][1] < store[k][1]
    /\ \A j \in 1..Len(store) : \A k \in 1..Len(store) :
          store[j][1] = store[k][1] => j = k

C24_Witness ==
    /\ maxlen = 2
    /\ Len(store) = 2
    /\ store[1][1] = 2
    /\ store[2][1] = 3

(***************************************************************************)
(* Further properties of the Aggregation Broker                            *)
(***************************************************************************)
\* the identities whose DONE the broker has taken
Left ==
    {handled[j].client : j \in {i \in 1..Len(handled) :
                                    handled[i].request = LOG_DONE}}

\* C25: no two sessions the broker has recorded are of the same identity,
\* and an identity whose session has been removed has no session again:
\* the step that records a session records it for an identity that has
\* not left.
C25_IdentityNotReused ==
    /\ [](/\ \A k \in 1..Len(sessions) : \A m \in 1..Len(sessions) :
                sessions[k].client = sessions[m].client => k = m
          /\ bpc # "failed" => Left \cap DOMAIN clients = {})
    /\ [][Len(sessions') > Len(sessions) =>
             sessions'[Len(sessions')].client \notin Left]_vars

C25_Witness ==
    /\ Len(sessions) = 3
    /\ Cardinality(Left) = 2
    /\ Cardinality(DOMAIN clients) = 1
    /\ bpc = "loop"

(***************************************************************************)
(* Further properties of the Dispatcher                                    *)
(***************************************************************************)
\* the last n elements of a sequence
LastOf(seq, n) == SubSeq(seq, Len(seq) - n + 1, Len(seq))

\* C26: after n log() calls the retention buffer holds the last
\* min(maxlen, n) entries passed to log(), in the order of the calls:
\* none when maxlen is 0, all of them when it is None; its capacity is the
\* maxlen argument whatever capacity the History Buffer was given.
C26_RetentionBuffer ==
    /\ lmaxlen \in Retentions
    /\ Len(args) = ncall
    /\ self_entries = LastOf(args, IF lmaxlen < ncall THEN lmaxlen
                                   ELSE ncall)
    /\ lmaxlen = 0 => self_entries = <<>>
    /\ lmaxlen = SysMaxsize => self_entries = args

C26_Witness ==
    /\ lmaxlen = 1
    /\ maxlen = MaxCap
    /\ persistent
    /\ ncall >= 2
    /\ lpc = "idle"
    /\ self_entries = <<args[ncall]>>

\* C27: when the last remote logger has terminated and the broker returns,
\* the broker has closed its log: close() has been called on the
\* Dispatcher.
C27_ClosedOnReturn == bpc = "returned" => nclose >= 1

(***************************************************************************)
(* Further properties of the stream clients                                *)
(***************************************************************************)
\* C28: a client whose callback() was called with get_snapshot enabled
\* requests the snapshot first, so that it is in get_snapshot's loop or,
\* the snapshot's entries passed on in the order received, in the loop
\* over the live entries; the entries it has passed on have strictly
\* increasing sequence numbers, so that none was passed twice.
C28_CallbackWithSnapshot ==
    \A c \in StreamClients :
        (cmode[c] /\ cpc[c] \notin {"start", "main", "rogue", "rogue_wait"})
        => /\ cpc[c] \in {"get_snapshot", "recv"}
           /\ \A i \in 1..Len(called[c]) : \A j \in 1..Len(called[c]) :
                 i < j => called[c][i][1] < called[c][j][1]

\* the sequence number of the last entry of a snapshot, 0 for an empty one
LastSequence(entries) ==
    IF entries = <<>> THEN 0 ELSE entries[Len(entries)][1]

\* C29: the sequence number plot.connect() returns with persistent=True is
\* that of the last entry received in the snapshot, so that update() plots
\* no live entry the snapshot held already: no point is plotted twice.
C29_PlotSequence ==
    \A c \in StreamClients :
        (cmode[c] /\ cpc[c] = "plot_update")
        => /\ cseq[c] = LastSequence(centries[c])
           /\ \A i \in 1..Len(called[c]) : \A j \in 1..Len(called[c]) :
                 called[c][i][1] = called[c][j][1] => i = j

(***************************************************************************)
(* Further properties of the Snapshot Manager                              *)
(***************************************************************************)
\* the messages a step adds to a client's snapshot channel
ReplyAdded(c) == SubSeq(snapIn'[c], Len(snapIn[c]) + 1, Len(snapIn'[c]))

\* C30: the History Buffer changes only in a step that takes an update
\* from the pipe; a step that only serves a request leaves it as it was;
\* and a reply is sent whole within one step, after the update of that
\* step if there is one, so that its messages are the pairs of the buffer
\* at that moment, a run of consecutive sequence numbers, and then the
\* terminal message.
C30_StoreChangesOnUpdates ==
    [][/\ store' # store => updates # <<>> /\ updates' = Tail(updates)
       /\ updates' = updates => store' = store
       /\ \A c \in StreamClients :
             Len(snapIn'[c]) > Len(snapIn[c])
             => LET reply == ReplyAdded(c)
                    n == Len(reply)
                IN /\ n = Len(store') + 1
                   /\ int(reply[n][1]) = 0 - 1
                   /\ \A j \in 1..(n - 1) :
                         /\ int(reply[j][1]) = store'[j][1]
                         /\ reply[j][2] = store'[j][2]
                   /\ \A j \in 1..(n - 2) :
                         int(reply[j + 1][1]) = int(reply[j][1]) + 1]_vars

C30_Witness ==
    /\ Len(store) >= 2
    /\ store[1][1] > 1
    /\ \E c \in StreamClients :
          /\ Len(snapIn[c]) = Len(store) + 1
          /\ int(snapIn[c][1][1]) = store[1][1]

\* C31: every pair of the History Buffer is a pair the publisher has
\* broadcast before (with that sequence number and that entry), and the
\* newest sequence number of the buffer is at most the publisher's counter.
C31_StoreWasBroadcast ==
    /\ \A j \in 1..Len(store) :
          \E k \in 1..Len(broadcast) :
              /\ int(broadcast[k][1]) = store[j][1]
              /\ broadcast[k][2] = store[j][2]
    /\ store # <<>> => store[Len(store)][1] <= sequence

C31_Witness ==
    /\ Len(store) >= 2
    /\ store[Len(store)][1] < sequence
    /\ pubpc = "updates"

(***************************************************************************)
(* Further properties of the Dispatcher's memoization                      *)
(***************************************************************************)
\* the places of the handlers called during the c-th log() call
CalledIn(c) == {received[j].h : j \in {i \in 1..Len(received) :
                                           received[i].call = c}}

\* the filter runs of the c-th log() call, whatever their key
FilterRunsIn(c) ==
    {j \in 1..Len(runs) : runs[j].call = c /\ runs[j].op = "filter"}

\* C32 as stated: two handlers called in one log() call share a cached
\* filtered entry only if their ordered filter lists are identical: when
\* their non-empty lists differ (in order or multiplicity), the filter
\* method has run for each of them, under two different keys.
C32_OrderedKey ==
    \A c \in 1..ncall : \A a \in CalledIn(c) : \A b \in CalledIn(c) :
        (/\ a < b
         /\ handlers[a].filters # <<>>
         /\ handlers[b].filters # <<>>
         /\ handlers[a].filters # handlers[b].filters)
        => \E i \in FilterRunsIn(c) : \E j \in FilterRunsIn(c) :
              /\ i # j
              /\ runs[i].key = KeyOf(a)
              /\ runs[j].key = KeyOf(b)

(***************************************************************************)
(* Further properties of the aggregation protocol                          *)
(***************************************************************************)
\* C33 as stated: a RemoteLogger that has sent its JOIN eventually receives
\* READY and is constructed, whatever the other producers do meanwhile.
C33_JoinAnswered ==
    \A p \in Producers :
        (ppc[p] = "init_recv") ~> (ppc[p] = "idle" /\ ~pclosed[p])

\* C34 as stated: when every constructed producer eventually calls
\* close(), a broker that has recorded a session eventually returns, and
\* every log() and close() call of a producer that was constructed
\* completes.
C34_BrokerReturns ==
    /\ (bpc = "loop") ~> (bpc = "returned")
    /\ \A p \in Producers :
          (ppc[p] \in {"log_recv", "close_recv"}) ~> (ppc[p] = "idle")

\* the message the broker takes in a step that takes one
Taken == handled'[Len(handled')]

\* C35: the broker hands an entry to the Dispatcher only when its sender
\* has a session, records a session only for an identity that has none,
\* and removes a session only on a DONE of the identity that has it; a
\* message that breaks one of these rules changes no session and nothing
\* in the Dispatcher, and ends the broker.
C35_SessionsGuarded ==
    [][Len(handled') > Len(handled) =>
          /\ logged' # logged =>
                /\ Taken.client \in DOMAIN clients
                /\ Taken.request \notin {LOG_READY, LOG_DONE}
                /\ Len(logged') = Len(logged) + 1
          /\ sessions' # sessions =>
                /\ Taken.client \notin DOMAIN clients
                /\ Taken.request = LOG_READY
                /\ Len(sessions') = Len(sessions) + 1
                /\ sessions'[Len(sessions')].client = Taken.client
          /\ clients' # clients =>
                \/ /\ sessions' # sessions
                   /\ DOMAIN clients' = DOMAIN clients \cup {Taken.client}
                \/ /\ Taken.request = LOG_DONE
                   /\ Taken.client \in DOMAIN clients
                   /\ DOMAIN clients' = DOMAIN clients \ {Taken.client}
          /\ ((Taken.request = LOG_READY) = (Taken.client \in DOMAIN clients)
              /\ bpc = "loop") =>
                /\ bpc' = "failed"
                /\ UNCHANGED <<clients, sessions, logged, sent>>]_vars

C35_Witness ==
    /\ bpc = "failed"
    /\ handled[Len(handled)] = [client |-> RoguePeer, request |-> LOG_READY]
    /\ RoguePeer \in DOMAIN clients
    /\ Len(sessions) = 3
    /\ Len(logged) >= 1

\* producer p, which has a session, waits for a reply to a message the
\* broker has not answered
WaitsForReply(p) ==
    /\ p \in DOMAIN clients
    /\ ppc[p] \in {"log_recv", "close_recv"}
    /\ outbox[p] = <<>>

\* the last message the broker took broke the protocol
Violation ==
    /\ handled # <<>>
    /\ LET last == handled[Len(handled)]
       IN (last.request = LOG_READY) = (last.client \in DOMAIN clients)

\* C36 as stated: a protocol violation affects only the peer that made
\* it: when the broker has ended on one, no other producer that has a
\* session is left waiting for a reply to its log() or close() call.
C36_OthersUnaffected ==
    (bpc = "failed" /\ Violation)
    => \A p \in Producers \ {handled[Len(handled)].client} :
          ~WaitsForReply(p)

\* C36 as amended: a protocol violation taken inside the loop ends the
\* broker, and only a violation does; after it the broker takes no
\* message, sends no reply and changes no session, so a producer with a
\* session that waits for a reply then waits for ever.
C36_ViolationFatal ==
    /\ [](bpc = "failed" /\ Len(sessions) > 0 => Violation)
    /\ [][/\ (/\ Len(handled') > Len(handled)
              /\ bpc = "loop"
              /\ (Taken.request = LOG_READY)
                    = (Taken.client \in DOMAIN clients))
              => bpc' = "failed" /\ UNCHANGED <<clients, logged, sent>>
          /\ bpc = "failed" =>
                /\ UNCHANGED brokerVars
                /\ \A p \in Producers : Len(outbox'[p]) <= Len(outbox[p])
                /\ \A p \in Producers :
                      WaitsForReply(p) => WaitsForReply(p)']_vars

C36_Witness ==
    /\ bpc = "failed"
    /\ handled[Len(handled)].client = RoguePeer
    /\ \E p \in Producers \ {RoguePeer} :
          /\ WaitsForReply(p)
          /\ ppc[p] = "close_recv"
          /\ inbox[p] # <<>>

(***************************************************************************)
(* Further properties of the publisher and its clients                     *)
(***************************************************************************)
\* C37 as stated: once the Snapshot Manager has ended, a log() call on the
\* persistent handler still completes: having broadcast its entry with
\* the next sequence number, it can make its send on the internal pipe.
C37_LogAfterManagerEnded ==
    /\ mpc = "dead" => sequence = nlog /\ Len(broadcast) = nlog
    /\ (mpc = "dead" /\ pubpc = "updates") => Len(updates) < PipeCapacity

\* the sequence numbers a client has kept
Kept(c) == {called[c][j][1] : j \in 1..Len(called[c])}

\* C38 as stated: a client that subscribed before it requested the
\* snapshot, has read the snapshot to its end and has taken every live
\* message delivered to it so far, has kept every sequence number from 1
\* up to the latest it has kept, each once.
C38_SubscribeFirstComplete ==
    \A c \in StreamClients :
        (cpc[c] = "test_recv" /\ subIn[c] = <<>>)
        => /\ Len(called[c]) = Cardinality(Kept(c))
           /\ \A k \in Kept(c) : \A m \in 1..k : m \in Kept(c)

\* C39 as stated: no two sessions that are active at the same time have
\* the same tag, whether the tag is an ordinal or a name.
C39_TagsDistinct ==
    \A p \in DOMAIN clients : \A q \in DOMAIN clients :
        clients[p] = clients[q] => p = q

\* C40 as stated: a RemoteLogger puts no ENTRY on the wire after its DONE:
\* a closed RemoteLogger is never in a log() call waiting for an ACK, and
\* no ENTRY follows a DONE among the messages the broker takes from one
\* identity.
C40_NoEntryAfterDone ==
    /\ \A p \in Producers : ~(pclosed[p] /\ ppc[p] = "log_recv")
    /\ \A i \in 1..Len(handled) : \A j \in 1..Len(handled) :
          (/\ i < j
           /\ handled[i].client = handled[j].client
           /\ handled[i].request = LOG_DONE)
          => handled[j].request \in {LOG_READY, LOG_DONE}

=============================================================================
